---- MODULE Spec2Model ----
(***************************************************************************)
(* Session search of rymalia/kuato.                                        *)
(*                                                                         *)
(*   file-based/search.ts : main -> searchSessions over a directory tree   *)
(*   postgres/api.ts      : the Hono routes GET /sessions, /sessions/:id,  *)
(*                          /sessions/stats over the sessions table        *)
(*                                                                         *)
(* JavaScript values are modelled as follows.                              *)
(*   string            sequence of one-character strings                   *)
(*   T | undefined     <<>> (undefined) or <<t>>                           *)
(*   number            [nan |-> BOOLEAN, n |-> Int]                        *)
(*   Date              milliseconds since 2024-12-31T00:00Z, so that       *)
(*                     Day(d) is midnight of January d, 2025               *)
(***************************************************************************)
EXTENDS Integers, Sequences, FiniteSets, TLC

VARIABLES
    pc,          \* position of the command-line program
    values,      \* parseArgs result: the raw command-line strings
    fs,          \* the directory tree below baseDir
    options,     \* SearchOptions built by main
    sessionDirs, \* result of findSessionDirs (indexes into fs.entries)
    di,          \* number of session directories already scanned
    results,     \* searchSessions' results array
    output,      \* what searchSessions returned
    apc,         \* position of the HTTP request
    req,         \* the HTTP request: path and query parameters
    store,       \* rows of the sessions table
    handler,     \* the route handler Hono selected for the request
    sqlq,        \* the store query the handler awaits
    resp         \* the HTTP response

vars == <<pc, values, fs, options, sessionDirs, di, results, output,
          apc, req, store, handler, sqlq, resp>>
cliVars == <<pc, values, fs, options, sessionDirs, di, results, output>>
apiVars == <<apc, req, store, handler, sqlq, resp>>

---------------------------------------------------------------------------
(* Bounds of the model *)

MaxFiles == 2      \* directory entries below all session directories together
MaxDirs == 2       \* entries of baseDir
MaxRows == 2       \* rows of the sessions table

---------------------------------------------------------------------------
(* JavaScript values *)

undefined == <<>>
Some(x) == <<x>>
IsDefined(o) == o # <<>>
Get(o) == o[1]

NaN == [nan |-> TRUE, n |-> 0]
Num(k) == [nan |-> FALSE, n |-> k]

\* ToBoolean of a number: 0 and NaN are falsy
NumTruthy(x) == ~x.nan /\ x.n # 0
\* ToBoolean of a string: the empty string is falsy
StrTruthy(s) == Len(s) > 0

Min(a, b) == IF a <= b THEN a ELSE b
Max(a, b) == IF a >= b THEN a ELSE b

MsPerDay == 24 * 60 * 60 * 1000
Day(d) == d * MsPerDay
Now == Day(20)

\* String.prototype.toLowerCase on the alphabet of the model
LowerChar(c) ==
    CASE c = "E" -> "e"
      [] c = "D" -> "d"
      [] c = "M" -> "m"
      [] c = "S" -> "s"
      [] c = "L" -> "l"
      [] c = "Y" -> "y"
      [] c = "B" -> "b"
      [] OTHER -> c

toLowerCase(s) == [i \in 1..Len(s) |-> LowerChar(s[i])]

\* String.prototype.includes
includes(s, t) ==
    \E i \in 0..(Len(s) - Len(t)) : SubSeq(s, i + 1, i + Len(t)) = t

\* s.split(/\s+/).filter(Boolean): the maximal runs of non-whitespace
RECURSIVE SplitFrom(_, _, _, _)
SplitFrom(s, i, cur, acc) ==
    IF i > Len(s)
    THEN IF cur = <<>> THEN acc ELSE Append(acc, cur)
    ELSE IF s[i] = " "
         THEN SplitFrom(s, i + 1, <<>>, IF cur = <<>> THEN acc ELSE Append(acc, cur))
         ELSE SplitFrom(s, i + 1, Append(cur, s[i]), acc)

splitTerms(s) == SplitFrom(s, 1, <<>>, <<>>)

\* s.split(','): never empty, keeps empty pieces
RECURSIVE SplitCommaFrom(_, _, _, _)
SplitCommaFrom(s, i, cur, acc) ==
    IF i > Len(s)
    THEN Append(acc, cur)
    ELSE IF s[i] = ","
         THEN SplitCommaFrom(s, i + 1, <<>>, Append(acc, cur))
         ELSE SplitCommaFrom(s, i + 1, Append(cur, s[i]), acc)

splitComma(s) == SplitCommaFrom(s, 1, <<>>, <<>>)

\* String.prototype.trim
RECURSIVE trim(_)
trim(s) ==
    IF s = <<>> THEN s
    ELSE IF Head(s) = " " THEN trim(Tail(s))
    ELSE IF s[Len(s)] = " " THEN trim(SubSeq(s, 1, Len(s) - 1))
    ELSE s

IsDigit(c) == c \in {"0", "1", "2", "3", "4", "5", "6", "7", "8", "9"}

DigitVal(c) ==
    CASE c = "0" -> 0 [] c = "1" -> 1 [] c = "2" -> 2 [] c = "3" -> 3
      [] c = "4" -> 4 [] c = "5" -> 5 [] c = "6" -> 6 [] c = "7" -> 7
      [] c = "8" -> 8 [] c = "9" -> 9

\* value of the leading run of digits of s from position i, with the run's length
RECURSIVE DigitsFrom(_, _, _, _)
DigitsFrom(s, i, acc, cnt) ==
    IF i <= Len(s) /\ IsDigit(s[i])
    THEN DigitsFrom(s, i + 1, acc * 10 + DigitVal(s[i]), cnt + 1)
    ELSE <<acc, cnt>>

RECURSIVE SkipSpaces(_, _)
SkipSpaces(s, i) ==
    IF i <= Len(s) /\ s[i] = " " THEN SkipSpaces(s, i + 1) ELSE i

\* parseInt(s, 10): leading whitespace, an optional sign, then the longest run
\* of digits; NaN when there is no digit
parseInt(s) ==
    LET start  == SkipSpaces(s, 1)
        signed == start <= Len(s) /\ s[start] \in {"-", "+"}
        neg    == start <= Len(s) /\ s[start] = "-"
        run    == DigitsFrom(s, IF signed THEN start + 1 ELSE start, 0, 0)
    IN  IF run[2] = 0 THEN NaN
        ELSE Num(IF neg THEN 0 - run[1] ELSE run[1])

slice0_tail(a, end) ==
    LET k == IF end < 0 THEN Max(Len(a) + end, 0) ELSE Min(end, Len(a))
    IN  SubSeq(a, Len(a) - k + 1, Len(a))

\* Array.prototype.slice(0, end)
slice0(a, end) ==
    LET k == IF end < 0 THEN Max(Len(a) + end, 0) ELSE Min(end, Len(a))
    IN  SubSeq(a, 1, k)
---------------------------------------------------------------------------
(* Inputs: strings, sessions, log files, directory trees, command lines *)

sEm == <<"E", "m">>
s_em_b == <<"e", "m", " ", "b">>
s_b == <<"b">>
sEd == <<"E", "d">>
sSrc == <<"S", "/", "b">>

\* the strings of the README's example session
sLets == <<"L", "e", "t", "'", "s", " ", "b", "u", "i", "l", "d", " ", "a", "n", " ",
           "e", "m", "a", "i", "l", " ", "f", "i", "l", "t", "e", "r">>
sYes == <<"Y", "e", "s", ",", " ", "s", "h", "i", "p", " ", "i", "t">>
sEdit == <<"E", "d", "i", "t">>
sBash == <<"B", "a", "s", "h">>
sEmail == <<"e", "m", "a", "i", "l">>
sDatabase == <<"d", "a", "t", "a", "b", "a", "s", "e">>

D10 == Day(10)
D18 == Day(18)

\* What parseSessionFile extracted from a log: the fields search.ts reads
Content(msgs, tools, files) ==
    [userMessages |-> msgs, toolsUsed |-> tools, filesFromToolCalls |-> files]

Contents ==
    { Content(<<>>, <<sEd>>, <<>>),                  \* no human turn
      Content(<<sEm, s_em_b>>, <<sEd>>, <<sSrc>>),
      Content(<<sEm>>, <<>>, <<>>),
      Content(<<s_b>>, <<>>, <<>>) }

EmailContent == Content(<<sLets, sYes>>, <<sEdit, sBash>>, <<>>)

Session(c, ended) ==
    [userMessages |-> c.userMessages, toolsUsed |-> c.toolsUsed,
     filesFromToolCalls |-> c.filesFromToolCalls, endedAt |-> ended]

NoSession == Session(Content(<<>>, <<>>, <<>>), 0)

\* A directory entry of a session directory.
\*   other    : its name does not end in .jsonl
\*   statfail : statSync throws (dangling link, removed after readdir)
\*   throw    : parseSessionFile throws
\*   null     : parseSessionFile returns null
\*   session  : parseSessionFile returns the session
File(kind, mtime, session) == [kind |-> kind, mtime |-> mtime, session |-> session]

Files ==
    { File("other", D18, NoSession), File("statfail", 0, NoSession),
      File("throw", D18, NoSession), File("null", D18, NoSession) }
    \cup { File("session", t, Session(c, t)) : c \in Contents, t \in {D10, D18} }
    \cup { File("session", D18, Session(Content(<<sEm>>, <<>>, <<>>), D10)),
           File("session", D10, Session(Content(<<sEm>>, <<>>, <<>>), D18)),
           File("session", D18, Session(EmailContent, D18)) }

\* The files of the directory trees with several entries below baseDir
CoreFiles ==
    { File("statfail", 0, NoSession), File("throw", D18, NoSession),
      File("session", D18, Session(Content(<<sEm, s_em_b>>, <<sEd>>, <<sSrc>>), D18)),
      File("session", D10, Session(Content(<<sEm>>, <<>>, <<>>), D10)) }

FileSeqs(pool, k) == [1..k -> pool]

\* An entry of baseDir.
\*   dir        : a directory that can be listed
\*   unreadable : a directory whose readdirSync throws
\*   notdir     : statSync throws or isDirectory() is false
Entry(kind, files) == [kind |-> kind, files |-> files]

\* the sequences of at most d entries holding at most n files together
RECURSIVE EntrySeqs(_, _, _)
EntrySeqs(pool, d, n) ==
    IF d = 0 THEN {<<>>}
    ELSE {<<>>}
         \cup { <<Entry(k, <<>>)>> \o rest :
                    k \in {"unreadable", "notdir"}, rest \in EntrySeqs(pool, d - 1, n) }
         \cup UNION { { <<Entry("dir", f)>> \o rest :
                            f \in FileSeqs(pool, k),
                            rest \in EntrySeqs(pool, d - 1, n - k) } :
                      k \in 0..n }

\* The trees explored: an unreadable baseDir, one session directory over all
\* files, several entries over the core files
FileSystems ==
    { [readable |-> FALSE, entries |-> <<>>] }
    \cup { [readable |-> TRUE, entries |-> es] : es \in EntrySeqs(Files, 1, MaxFiles) }
    \cup { [readable |-> TRUE, entries |-> es] : es \in EntrySeqs(CoreFiles, MaxDirs, MaxFiles) }

\* The command line after parseArgs. Dates are YYYY-MM-DD strings of January 2025.
NoValues ==
    [query |-> undefined, days |-> undefined, since |-> undefined,
     until |-> undefined, tools |-> undefined, filePattern |-> undefined,
     limit |-> undefined]

QueryArgs ==
    { undefined, Some(<<>>), Some(<<" ">>), Some(<<"E", "m", " ", " ", "e", "d">>),
      Some(sEmail), Some(sDatabase) }
LimitArgs ==
    { undefined, Some(<<"0">>), Some(<<"-", "1">>), Some(<<"1">>),
      Some(<<"5", "0", "0">>), Some(<<"x">>) }
DaysArgs == { undefined, Some(<<"1">>), Some(<<"7">>) }
SinceArgs == { undefined, Some(<<"2", "0", "2", "5", "-", "0", "1", "-", "1", "1">>) }
UntilArgs == { undefined, Some(<<"2", "0", "2", "5", "-", "0", "1", "-", "1", "5">>) }
ToolsArgs == { undefined, Some(<<"e", "D">>), Some(<<"x", ",", "e", "D">>) }
PatternArgs == { undefined, Some(<<>>), Some(<<"s", "/">>) }

\* The command lines explored: ranking and limit, structural filters, date window
ValueSets ==
    { [NoValues EXCEPT !.query = q, !.limit = l] : q \in QueryArgs, l \in LimitArgs }
    \cup { [NoValues EXCEPT !.query = q, !.tools = t, !.filePattern = p] :
               q \in {undefined, Some(<<"E", "m", " ", " ", "e", "d">>)},
               t \in ToolsArgs, p \in PatternArgs }
    \cup { [NoValues EXCEPT !.days = d, !.since = s, !.until = u] :
               d \in DaysArgs, s \in SinceArgs, u \in UntilArgs }

\* new Date("2025-01-DD")
parseDate(s) == Day(parseInt(SubSeq(s, 9, 10)).n)

NoOptions ==
    [query |-> undefined, days |-> undefined, since |-> undefined,
     until |-> undefined, tools |-> undefined, filePattern |-> undefined,
     limit |-> NaN]

---------------------------------------------------------------------------
(* file-based/search.ts *)

\* main: the SearchOptions built from the command line
mainOptions(v) ==
    [query       |-> v.query,
     days        |-> IF IsDefined(v.days) /\ StrTruthy(Get(v.days))
                     THEN Some(parseInt(Get(v.days))) ELSE undefined,
     since       |-> IF IsDefined(v.since) /\ StrTruthy(Get(v.since))
                     THEN Some(parseDate(Get(v.since))) ELSE undefined,
     until       |-> IF IsDefined(v.until) /\ StrTruthy(Get(v.until))
                     THEN Some(parseDate(Get(v.until))) ELSE undefined,
     tools       |-> IF IsDefined(v.tools) /\ StrTruthy(Get(v.tools))
                     THEN Some(splitComma(Get(v.tools))) ELSE undefined,
     filePattern |-> v.filePattern,
     limit       |-> IF IsDefined(v.limit) /\ StrTruthy(Get(v.limit))
                     THEN parseInt(Get(v.limit)) ELSE Num(20)]

\* findSessionDirs: the entries of baseDir that are directories
findSessionDirs(f) ==
    IF ~f.readable THEN <<>>
    ELSE SelectSeq([i \in 1..Len(f.entries) |-> i],
                   LAMBDA i : f.entries[i].kind \in {"dir", "unreadable"})

\* findSessionFiles: the date cutoff
sinceCutoff(o) ==
    IF IsDefined(o.days) /\ NumTruthy(Get(o.days)) /\ ~IsDefined(o.since)
    THEN Some(Now - Get(o.days).n * MsPerDay)
    ELSE o.since

\* findSessionFiles: the loop over readdirSync(dir); a throwing statSync leaves
\* the loop through the catch, with the files pushed so far
RECURSIVE scanFiles(_, _, _, _, _)
scanFiles(fl, i, since, until, acc) ==
    IF i > Len(fl) THEN acc
    ELSE IF fl[i].kind = "other" THEN scanFiles(fl, i + 1, since, until, acc)
    ELSE IF fl[i].kind = "statfail" THEN acc
    ELSE IF IsDefined(since) /\ fl[i].mtime < Get(since)
         THEN scanFiles(fl, i + 1, since, until, acc)
    ELSE IF IsDefined(until) /\ fl[i].mtime > Get(until)
         THEN scanFiles(fl, i + 1, since, until, acc)
    ELSE scanFiles(fl, i + 1, since, until, Append(acc, i))

findSessionFiles(e, o) ==
    IF e.kind # "dir" THEN <<>>
    ELSE scanFiles(e.files, 1, sinceCutoff(o), o.until, <<>>)

\* scoreRelevance: one field's loop over its entries and the query terms
RECURSIVE scoreField(_, _, _, _, _, _)
scoreField(items, terms, weight, i, j, score) ==
    IF i > Len(items) THEN score
    ELSE IF j > Len(terms) THEN scoreField(items, terms, weight, i + 1, 1, score)
    ELSE scoreField(items, terms, weight, i, j + 1,
                    IF includes(toLowerCase(items[i]), terms[j])
                    THEN score + weight ELSE score)

scoreRelevance_toolsWeighTen(session, query) ==
    IF ~StrTruthy(query) THEN 1
    ELSE LET queryTerms == splitTerms(toLowerCase(query))
             s1 == scoreField(session.userMessages, queryTerms, 10, 1, 1, 0)
             s2 == scoreField(session.toolsUsed, queryTerms, 10, 1, 1, s1)
         IN  scoreField(session.filesFromToolCalls, queryTerms, 3, 1, 1, s2)

\* scoreRelevance: 10 per (user message, term), 3 per (tool, term), 3 per (file, term)
scoreRelevance(session, query) ==
    IF ~StrTruthy(query) THEN 1
    ELSE LET queryTerms == splitTerms(toLowerCase(query))
             s1 == scoreField(session.userMessages, queryTerms, 10, 1, 1, 0)
             s2 == scoreField(session.toolsUsed, queryTerms, 3, 1, 1, s1)
         IN  scoreField(session.filesFromToolCalls, queryTerms, 3, 1, 1, s2)

matchesFilters_everyTool(session, o) ==
    /\ (IsDefined(o.tools) /\ Len(Get(o.tools)) > 0) =>
          \A a \in 1..Len(Get(o.tools)) : \E b \in 1..Len(session.toolsUsed) :
              includes(toLowerCase(session.toolsUsed[b]), toLowerCase(Get(o.tools)[a]))
    /\ (IsDefined(o.filePattern) /\ StrTruthy(Get(o.filePattern))) =>
          \E b \in 1..Len(session.filesFromToolCalls) :
              includes(toLowerCase(session.filesFromToolCalls[b]),
                       toLowerCase(Get(o.filePattern)))

\* matchesFilters: tools (any-of) and file pattern, combined with AND
matchesFilters(session, o) ==
    /\ (IsDefined(o.tools) /\ Len(Get(o.tools)) > 0) =>
          \E a \in 1..Len(Get(o.tools)) : \E b \in 1..Len(session.toolsUsed) :
              includes(toLowerCase(session.toolsUsed[b]), toLowerCase(Get(o.tools)[a]))
    /\ (IsDefined(o.filePattern) /\ StrTruthy(Get(o.filePattern))) =>
          \E b \in 1..Len(session.filesFromToolCalls) :
              includes(toLowerCase(session.filesFromToolCalls[b]),
                       toLowerCase(Get(o.filePattern)))

queryGiven(o) == IsDefined(o.query) /\ StrTruthy(Get(o.query))

relevanceOf_zeroBaseline(session, o) ==
    IF queryGiven(o) THEN scoreRelevance(session, Get(o.query)) ELSE 0

\* searchSessions: options.query ? scoreRelevance(session, options.query) : 1
relevanceOf(session, o) ==
    IF queryGiven(o) THEN scoreRelevance(session, Get(o.query)) ELSE 1

SearchResult(session, relevance, path) ==
    [userMessages |-> session.userMessages, toolsUsed |-> session.toolsUsed,
     filesFromToolCalls |-> session.filesFromToolCalls,
     endedAt |-> session.endedAt, relevance |-> relevance, transcriptPath |-> path]

skipEmpty_never(session) == FALSE

\* searchSessions: "Skip empty sessions"
skipEmpty(session) == Len(session.userMessages) = 0

skipZero_never(o, relevance) == FALSE

\* searchSessions: "Skip zero-relevance matches when searching"
skipZero(o, relevance) == queryGiven(o) /\ relevance = 0

\* searchSessions: the body of the loop over one directory's files
processFile(res, file, path, o) ==
    IF file.kind # "session" THEN res
    ELSE IF skipEmpty(file.session) THEN res
    ELSE IF ~matchesFilters(file.session, o) THEN res
    ELSE IF skipZero(o, relevanceOf(file.session, o)) THEN res
    ELSE Append(res, SearchResult(file.session, relevanceOf(file.session, o), path))

RECURSIVE processFiles(_, _, _, _, _, _)
processFiles(res, e, d, paths, k, o) ==
    IF k > Len(paths) THEN res
    ELSE processFiles(processFile(res, e.files[paths[k]], <<d, paths[k]>>, o),
                      e, d, paths, k + 1, o)

compare_dateAscending(a, b) ==
    IF a.relevance # b.relevance
    THEN b.relevance - a.relevance
    ELSE a.endedAt - b.endedAt

\* searchSessions: the comparator given to results.sort
compare(a, b) ==
    IF a.relevance # b.relevance
    THEN b.relevance - a.relevance
    ELSE b.endedAt - a.endedAt

\* Array.prototype.sort (stable): insertion behind every element that does not
\* compare greater
RECURSIVE insertSorted(_, _, _)
insertSorted(sorted, x, i) ==
    IF i > Len(sorted) THEN Append(sorted, x)
    ELSE IF compare(sorted[i], x) > 0
         THEN SubSeq(sorted, 1, i - 1) \o <<x>> \o SubSeq(sorted, i, Len(sorted))
         ELSE insertSorted(sorted, x, i + 1)

RECURSIVE sortFrom(_, _, _)
sortFrom(a, i, sorted) ==
    IF i > Len(a) THEN sorted
    ELSE sortFrom(a, i + 1, insertSorted(sorted, a[i], 1))

sort(a) == sortFrom(a, 1, <<>>)

\* searchSessions: the limit applied by slice
effectiveLimit(o) == IF NumTruthy(o.limit) THEN o.limit.n ELSE 20

\* searchSessions: the results array after the loop over the first k directories
RECURSIVE collect(_, _, _, _)
collect(f, dirs, k, o) ==
    IF k = 0 THEN <<>>
    ELSE LET e == f.entries[dirs[k]]
         IN  processFiles(collect(f, dirs, k - 1, o), e, dirs[k],
                          findSessionFiles(e, o), 1, o)

\* searchSessions as a whole
searchSessions(f, o) ==
    slice0(sort(collect(f, findSessionDirs(f), Len(findSessionDirs(f)), o)),
           effectiveLimit(o))

CliInit ==
    /\ pc = "main"
    /\ values \in ValueSets
    /\ fs \in FileSystems
    /\ options = NoOptions
    /\ sessionDirs = <<>>
    /\ di = 0
    /\ results = <<>>
    /\ output = <<>>

\* the command-line program is not run
CliIdle ==
    /\ pc = "idle"
    /\ values = NoValues
    /\ fs = [readable |-> FALSE, entries |-> <<>>]
    /\ options = NoOptions
    /\ sessionDirs = <<>>
    /\ di = 0
    /\ results = <<>>
    /\ output = <<>>

\* main up to the call of searchSessions
Main ==
    /\ pc = "main"
    /\ options' = mainOptions(values)
    /\ pc' = "search"
    /\ UNCHANGED <<values, fs, sessionDirs, di, results, output>>
    /\ UNCHANGED apiVars

\* searchSessions: const sessionDirs = findSessionDirs(baseDir)
FindSessionDirs ==
    /\ pc = "search"
    /\ sessionDirs' = findSessionDirs(fs)
    /\ di' = 0
    /\ results' = <<>>
    /\ pc' = "loop"
    /\ UNCHANGED <<values, fs, options, output>>
    /\ UNCHANGED apiVars

\* searchSessions: one iteration of the loop over sessionDirs
ScanDir ==
    /\ pc = "loop"
    /\ di < Len(sessionDirs)
    /\ LET d == sessionDirs[di + 1]
           e == fs.entries[d]
       IN  results' = processFiles(results, e, d, findSessionFiles(e, options), 1, options)
    /\ di' = di + 1
    /\ UNCHANGED <<pc, values, fs, options, sessionDirs, output>>
    /\ UNCHANGED apiVars

\* searchSessions: sort, slice, return
SortAndLimit ==
    /\ pc = "loop"
    /\ di = Len(sessionDirs)
    /\ results' = sort(results)
    /\ output' = slice0(sort(results), effectiveLimit(options))
    /\ pc' = "done"
    /\ UNCHANGED <<values, fs, options, sessionDirs, di>>
    /\ UNCHANGED apiVars

---------------------------------------------------------------------------
(* Inputs of postgres/api.ts: requests and the sessions table *)

NoParams ==
    [search |-> undefined, days |-> undefined, since |-> undefined,
     until |-> undefined, tools |-> undefined, file_pattern |-> undefined,
     limit |-> undefined, with_transcript |-> undefined]

Request(path, query) == [path |-> path, query |-> query]

sSearch == <<"E", "m", " ", " ", "e", "d">>
s_true == <<"t", "r", "u", "e">>

SearchParams ==
    { [NoParams EXCEPT !.search = q, !.limit = l] :
          q \in {undefined, Some(<<" ">>), Some(sSearch)}, l \in LimitArgs }
    \cup { [NoParams EXCEPT !.days = d, !.since = s, !.until = u] :
               d \in DaysArgs \cup {Some(<<"x">>)}, s \in SinceArgs, u \in UntilArgs }
    \cup { [NoParams EXCEPT !.tools = t, !.file_pattern = p] :
               t \in { undefined, Some(<<"E", "d">>), Some(<<"e", "d">>),
                       Some(<<"E">>), Some(<<"x", ",", " ", "E", "d">>) },
               p \in PatternArgs }

Requests ==
    { Request(<<"sessions">>, q) : q \in SearchParams }
    \cup { Request(<<"sessions", id>>, [NoParams EXCEPT !.with_transcript = w]) :
               id \in {"s1", "s9"}, w \in {undefined, Some(s_true)} }
    \cup { Request(<<"sessions", "stats">>, [NoParams EXCEPT !.days = d]) :
               d \in {undefined, Some(<<"1">>)} }
    \cup { Request(<<"health">>, NoParams) }

\* A row of the sessions table; rank is what ts_rank gives the row for the
\* request's search (0: search_vector does not match)
Row(ended, tools, files, rank) ==
    [ended_at |-> ended, tools_used |-> tools, files_touched |-> files, rank |-> rank]

Rows ==
    { Row(t, c[1], c[2], r) :
          t \in {D10, D18}, c \in { <<<<sEd>>, <<sSrc>>>>, <<<<>>, <<>>>> },
          r \in {0, 1, 2} }

\* the primary keys of the rows, by position in the table
RowIds == <<"s1", "s2", "s3", "s4">>

Stores == UNION { [1..k -> Rows] : k \in 0..MaxRows }

NoQuery == [kind |-> "none"]
NoResponse == [status |-> 0]

---------------------------------------------------------------------------
(* postgres/api.ts *)

\* the routes in the order of their registration
Routes ==
    << [pattern |-> <<"sessions">>, handler |-> "search"],
       [pattern |-> <<"sessions", ":id">>, handler |-> "get"],
       [pattern |-> <<"sessions", "stats">>, handler |-> "stats"],
       [pattern |-> <<"health">>, handler |-> "health"] >>

\* Hono: a path matches a pattern segment by segment, ":name" matching any segment
matchRoute(pattern, path) ==
    /\ Len(pattern) = Len(path)
    /\ \A i \in 1..Len(pattern) : pattern[i] = ":id" \/ pattern[i] = path[i]

\* Hono: the first registered handler that matches answers the request
selectRoute(path) ==
    LET hits == { i \in 1..Len(Routes) : matchRoute(Routes[i].pattern, path) }
    IN  IF hits = {} THEN "notfound"
        ELSE Routes[CHOOSE i \in hits : \A j \in hits : i <= j].handler

\* Math.min on numbers
mathMin(x, k) == IF x.nan THEN NaN ELSE Num(Min(x.n, k))

\* GET /sessions: const limit = Math.min(parseInt(limitStr || '20', 10), 100)
apiLimit(q) ==
    mathMin(parseInt(IF IsDefined(q.limit) /\ StrTruthy(Get(q.limit))
                     THEN Get(q.limit) ELSE <<"2", "0">>), 100)

given(param) == IsDefined(param) /\ StrTruthy(Get(param))

\* GET /sessions: the conditions pushed, joined by AND
apiConditions(q) ==
    [days   |-> IF given(q.days) THEN Some(parseInt(Get(q.days))) ELSE undefined,
     since  |-> IF given(q.since) THEN Some(parseDate(Get(q.since))) ELSE undefined,
     until  |-> IF given(q.until) THEN Some(parseDate(Get(q.until))) ELSE undefined,
     tools  |-> IF given(q.tools)
                THEN Some([i \in 1..Len(splitComma(Get(q.tools))) |->
                               trim(splitComma(Get(q.tools))[i])])
                ELSE undefined,
     file   |-> IF given(q.file_pattern) THEN q.file_pattern ELSE undefined,
     search |-> IF given(q.search) THEN Some(splitTerms(Get(q.search))) ELSE undefined]

apiOrderBy_dateOnly(q) == <<"ended_at">>

\* GET /sessions: the ORDER BY clause
apiOrderBy(q) ==
    IF given(q.search) THEN <<"relevance", "ended_at">> ELSE <<"ended_at">>

\* GET /sessions: the statement given to sql.unsafe
apiQuery(q) ==
    [kind |-> "search", where |-> apiConditions(q), orderBy |-> apiOrderBy(q),
     limit |-> apiLimit(q)]

(* PostgreSQL evaluating the statement *)

\* jsonb ?| text[] : some array string is an element of the jsonb array
existsAny(arr, list) ==
    \E a \in 1..Len(list) : \E b \in 1..Len(arr) : arr[b] = list[a]

\* EXISTS (... WHERE f ILIKE '%pattern%')
ilikeAny(arr, pattern) ==
    \E b \in 1..Len(arr) : includes(toLowerCase(arr[b]), toLowerCase(pattern))

rowSatisfies(row, w) ==
    /\ IsDefined(w.days) => row.ended_at > Now - Get(w.days).n * MsPerDay
    /\ IsDefined(w.since) => row.ended_at >= Get(w.since)
    /\ IsDefined(w.until) => row.ended_at <= Get(w.until)
    /\ IsDefined(w.tools) => existsAny(row.tools_used, Get(w.tools))
    /\ IsDefined(w.file) => ilikeAny(row.files_touched, Get(w.file))
    /\ IsDefined(w.search) => (Get(w.search) # <<>> /\ row.rank > 0)

\* the statement is rejected: INTERVAL 'NaN days', LIMIT NaN, a negative LIMIT
statementFails(q) ==
    \/ IsDefined(q.where.days) /\ Get(q.where.days).nan
    \/ q.limit.nan
    \/ q.limit.n < 0

\* ORDER BY k1 DESC, k2 DESC over row indexes
sortKey(tbl, i, k) == IF k = "relevance" THEN tbl[i].rank ELSE tbl[i].ended_at

RECURSIVE before(_, _, _, _, _)
before(tbl, i, j, keys, k) ==
    IF k > Len(keys) THEN TRUE
    ELSE IF sortKey(tbl, i, keys[k]) # sortKey(tbl, j, keys[k])
         THEN sortKey(tbl, i, keys[k]) > sortKey(tbl, j, keys[k])
         ELSE before(tbl, i, j, keys, k + 1)

orderings(tbl, S, keys) ==
    { p \in [1..Cardinality(S) -> S] :
          /\ \A a, b \in 1..Cardinality(S) : a # b => p[a] # p[b]
          /\ \A a, b \in 1..Cardinality(S) : a < b => before(tbl, p[a], p[b], keys, 1) }

\* the row sequences the statement may return (rows that tie come in any order)
answers(tbl, q) ==
    { slice0(p, q.limit.n) :
          p \in orderings(tbl, { i \in 1..Len(tbl) : rowSatisfies(tbl[i], q.where) },
                          q.orderBy) }

ApiInit ==
    /\ apc = "recv"
    /\ req \in Requests
    /\ store \in Stores
    /\ handler = "none"
    /\ sqlq = NoQuery
    /\ resp = NoResponse

\* no HTTP request is served
ApiIdle ==
    /\ apc = "idle"
    /\ req = Request(<<>>, NoParams)
    /\ store = <<>>
    /\ handler = "none"
    /\ sqlq = NoQuery
    /\ resp = NoResponse

\* app.fetch: Hono routes the request
Dispatch ==
    /\ apc = "recv"
    /\ handler' = selectRoute(req.path)
    /\ apc' = "handler"
    /\ UNCHANGED <<req, store, sqlq, resp>>
    /\ UNCHANGED cliVars

\* GET /sessions up to await sql.unsafe(query, params)
SearchQuery ==
    /\ apc = "handler" /\ handler = "search"
    /\ sqlq' = apiQuery(req.query)
    /\ apc' = "await"
    /\ UNCHANGED <<req, store, handler, resp>>
    /\ UNCHANGED cliVars

\* GET /sessions: the store returned rows
SearchRows ==
    /\ apc = "await" /\ sqlq.kind = "search"
    /\ ~statementFails(sqlq)
    /\ \E rows \in answers(store, sqlq) :
           resp' = [status |-> 200, success |-> TRUE, count |-> Len(rows), data |-> rows]
    /\ apc' = "done"
    /\ UNCHANGED <<req, store, handler, sqlq>>
    /\ UNCHANGED cliVars

\* GET /sessions: the store call threw (rejected statement, store unreachable)
SearchError ==
    /\ apc = "await" /\ sqlq.kind = "search"
    /\ resp' = [status |-> 500, success |-> FALSE, error |-> "Search failed"]
    /\ apc' = "done"
    /\ UNCHANGED <<req, store, handler, sqlq>>
    /\ UNCHANGED cliVars

\* GET /sessions/:id up to the await of the SELECT
GetQuery ==
    /\ apc = "handler" /\ handler = "get"
    /\ sqlq' = [kind |-> "byId", id |-> req.path[2]]
    /\ apc' = "await"
    /\ UNCHANGED <<req, store, handler, resp>>
    /\ UNCHANGED cliVars

rowsById(tbl, id) == { i \in 1..Len(tbl) : RowIds[i] = id }

GetNotFound_asEmptyList ==
    /\ apc = "await" /\ sqlq.kind = "byId"
    /\ rowsById(store, sqlq.id) = {}
    /\ resp' = [status |-> 200, success |-> TRUE, count |-> 0, data |-> <<>>]
    /\ apc' = "done"
    /\ UNCHANGED <<req, store, handler, sqlq>>
    /\ UNCHANGED cliVars

\* GET /sessions/:id: rows.length === 0
GetNotFound ==
    /\ apc = "await" /\ sqlq.kind = "byId"
    /\ rowsById(store, sqlq.id) = {}
    /\ resp' = [status |-> 404, success |-> FALSE, error |-> "Session not found"]
    /\ apc' = "done"
    /\ UNCHANGED <<req, store, handler, sqlq>>
    /\ UNCHANGED cliVars

\* GET /sessions/:id: the row, with its transcript when asked for and readable
GetFound ==
    /\ apc = "await" /\ sqlq.kind = "byId"
    /\ \E i \in rowsById(store, sqlq.id) :
       \E m \in IF req.query.with_transcript = Some(s_true) THEN BOOLEAN ELSE {FALSE} :
           resp' = [status |-> 200, success |-> TRUE, data |-> i, messages |-> m]
    /\ apc' = "done"
    /\ UNCHANGED <<req, store, handler, sqlq>>
    /\ UNCHANGED cliVars

\* GET /sessions/:id: the store call threw
GetError ==
    /\ apc = "await" /\ sqlq.kind = "byId"
    /\ resp' = [status |-> 500, success |-> FALSE, error |-> "Failed to get session"]
    /\ apc' = "done"
    /\ UNCHANGED <<req, store, handler, sqlq>>
    /\ UNCHANGED cliVars

\* GET /sessions/stats: const daysNum = parseInt(days || '7', 10)
statsDays(q) ==
    parseInt(IF IsDefined(q.days) /\ StrTruthy(Get(q.days)) THEN Get(q.days) ELSE <<"7">>)

\* GET /sessions/stats up to the await of the first of its three SELECTs
StatsQuery ==
    /\ apc = "handler" /\ handler = "stats"
    /\ sqlq' = [kind |-> "stats", days |-> statsDays(req.query), step |-> 1]
    /\ apc' = "await"
    /\ UNCHANGED <<req, store, handler, resp>>
    /\ UNCHANGED cliVars

\* GET /sessions/stats: a SELECT returned, the next one is awaited
StatsNext ==
    /\ apc = "await" /\ sqlq.kind = "stats"
    /\ sqlq.step < 3
    /\ sqlq' = [sqlq EXCEPT !.step = @ + 1]
    /\ UNCHANGED <<apc, req, store, handler, resp>>
    /\ UNCHANGED cliVars

\* GET /sessions/stats: the last SELECT returned
StatsRows ==
    /\ apc = "await" /\ sqlq.kind = "stats"
    /\ sqlq.step = 3
    /\ resp' = [status |-> 200, success |-> TRUE,
                data |-> [days |-> sqlq.days,
                          session_count |->
                              Cardinality({ i \in 1..Len(store) :
                                  store[i].ended_at > Now - sqlq.days.n * MsPerDay })]]
    /\ apc' = "done"
    /\ UNCHANGED <<req, store, handler, sqlq>>
    /\ UNCHANGED cliVars

\* GET /sessions/stats: one of the SELECTs threw
StatsError ==
    /\ apc = "await" /\ sqlq.kind = "stats"
    /\ resp' = [status |-> 500, success |-> FALSE, error |-> "Failed to get stats"]
    /\ apc' = "done"
    /\ UNCHANGED <<req, store, handler, sqlq>>
    /\ UNCHANGED cliVars

\* GET /health
Health ==
    /\ apc = "handler" /\ handler = "health"
    /\ resp' = [status |-> 200, success |-> TRUE]
    /\ apc' = "done"
    /\ UNCHANGED <<req, store, handler, sqlq>>
    /\ UNCHANGED cliVars

---------------------------------------------------------------------------
(* One run of either program *)

Init == (CliInit /\ ApiIdle) \/ (CliIdle /\ ApiInit)

\* The handler of /sessions/stats is registered behind /sessions/:id, and
\* Dispatch never selects it: its steps are no steps of the served program.
Next ==
    \/ Main \/ FindSessionDirs \/ ScanDir \/ SortAndLimit
    \/ Dispatch \/ SearchQuery \/ SearchRows \/ SearchError
    \/ GetQuery \/ GetNotFound \/ GetFound \/ GetError
    \/ Health

Spec == Init /\ [][Next]_vars

\* The handler of /sessions/stats invoked on its own
StatsInit ==
    /\ CliIdle
    /\ apc = "handler"
    /\ handler = "stats"
    /\ req \in { Request(<<"sessions", "stats">>, [NoParams EXCEPT !.days = d]) :
                    d \in {undefined, Some(<<"1">>)} }
    /\ store \in Stores
    /\ sqlq = NoQuery
    /\ resp = NoResponse

StatsHandlerNext == StatsQuery \/ StatsNext \/ StatsRows \/ StatsError

StatsSpec == StatsInit /\ [][StatsHandlerNext]_vars

\* The steps a handler takes by itself: Bun runs every ready continuation, so
\* an enabled one is taken. The steps out of "await" need the store to answer
\* or to fail: api.ts sets no timer next to its await, and nothing obliges the
\* PostgreSQL server behind postgres(DATABASE_URL) to answer.
HandlerStep == Dispatch \/ SearchQuery \/ GetQuery \/ Health

StoreStep == SearchRows \/ SearchError \/ GetNotFound \/ GetFound \/ GetError

ServeNext == HandlerStep \/ StoreStep

ServeInit == CliIdle /\ ApiInit

\* One HTTP request, served by a fairly scheduled event loop
ServeSpec == ServeInit /\ [][ServeNext]_vars /\ WF_vars(HandlerStep)

\* Every handler of api.ts: a request routed by app.fetch, or the handler of
\* /sessions/stats invoked on its own
HandlersInit == ServeInit \/ StatsInit

HandlersNext == ServeNext \/ StatsHandlerNext

HandlersSpec == HandlersInit /\ [][HandlersNext]_vars
---------------------------------------------------------------------------
(* The claims *)

\* the logs parsed by searchSessions: <<entry, file>> index pairs
parsedFiles ==
    { <<d, k>> \in (1..Len(fs.entries)) \X (1..MaxFiles + 1) :
          /\ fs.readable
          /\ \E a \in 1..Len(findSessionFiles(fs.entries[d], options)) :
                 findSessionFiles(fs.entries[d], options)[a] = k }

\* the requested limit clamped to [1, 100], 20 when none is given
clampedLimit(v) ==
    IF ~given(v.limit) THEN 20 ELSE Max(1, Min(parseInt(Get(v.limit)).n, 100))

\* C1: for every corpus and every requested limit, searchSessions returns
\* exactly min(S, L) records, S the number of survivors of filtering and scoring
\* and L the requested limit clamped to [1, 100] (20 when no limit is given).
C1_LimitClamped ==
    (pc = "done" /\ ~options.limit.nan) =>
        Len(output) = Min(Len(results), clampedLimit(values))

\* the tree with every log's modification time set to the end of its session
alignMtime(f) ==
    [f EXCEPT !.entries =
        [d \in 1..Len(f.entries) |->
            [f.entries[d] EXCEPT !.files =
                [k \in 1..Len(f.entries[d].files) |->
                    IF f.entries[d].files[k].kind = "session"
                    THEN [f.entries[d].files[k] EXCEPT
                              !.mtime = f.entries[d].files[k].session.endedAt]
                    ELSE f.entries[d].files[k]]]]]

inWindow(t, o) ==
    /\ IsDefined(sinceCutoff(o)) => t >= Get(sinceCutoff(o))
    /\ IsDefined(o.until) => t <= Get(o.until)

\* C2: a record is returned only if its endedAt lies within [since, until]
\* (days=N meaning since = now - N days), and a record whose endedAt lies within
\* the window is not dropped because of the log's modification time: the result
\* is the one obtained when every log's modification time equals its endedAt.
C2_WindowByEndedAt ==
    pc = "done" =>
        /\ \A i \in 1..Len(output) : inWindow(output[i].endedAt, options)
        /\ output = searchSessions(alignMtime(fs), options)

\* C3: every record returned by searchSessions has a non-empty userMessages
\* sequence.
C3_UserMessagesNonEmpty ==
    /\ \A i \in 1..Len(results) : Len(results[i].userMessages) > 0
    /\ \A i \in 1..Len(output) : Len(output[i].userMessages) > 0

\* a search that returned records although it parsed a log with no user message
C3_Witness ==
    /\ pc = "done"
    /\ Len(output) > 0
    /\ \E p \in parsedFiles :
           /\ fs.entries[p[1]].files[p[2]].kind = "session"
           /\ fs.entries[p[1]].files[p[2]].session.userMessages = <<>>

\* C4: with a non-empty query string (whitespace-only included) every returned
\* record has relevance > 0, and no record whose accumulated score is 0 is in
\* the result.
C4_PositiveRelevance ==
    queryGiven(options) =>
        \A i \in 1..Len(output) :
            /\ output[i].relevance > 0
            /\ scoreRelevance(output[i], Get(options.query)) # 0

\* a query that returned records and left out a parsed log scoring 0
C4_Witness ==
    /\ pc = "done"
    /\ queryGiven(options)
    /\ Len(output) > 0
    /\ \E p \in parsedFiles :
           /\ fs.entries[p[1]].files[p[2]].kind = "session"
           /\ fs.entries[p[1]].files[p[2]].session.userMessages # <<>>
           /\ scoreRelevance(fs.entries[p[1]].files[p[2]].session, Get(options.query)) = 0

\* C5: in every result list, for positions i < j, relevance[i] >= relevance[j],
\* and endedAt[i] >= endedAt[j] when the relevances are equal: for the sort of
\* searchSessions and for the rows GET /sessions gets under its ORDER BY, with
\* a search term (relevance is ts_rank) and without one (no relevance).
C5_Ordered ==
    /\ \A i, j \in 1..Len(output) :
           i < j => /\ output[i].relevance >= output[j].relevance
                    /\ output[i].relevance = output[j].relevance
                           => output[i].endedAt >= output[j].endedAt
    /\ (apc = "done" /\ handler = "search" /\ resp.status = 200) =>
           \A i, j \in 1..Len(resp.data) :
               i < j =>
                   /\ given(req.query.search)
                          => store[resp.data[i]].rank >= store[resp.data[j]].rank
                   /\ (~given(req.query.search)
                           \/ store[resp.data[i]].rank = store[resp.data[j]].rank)
                          => store[resp.data[i]].ended_at >= store[resp.data[j]].ended_at

\* two returned records of equal relevance that ended on different days, found
\* in the other order
C5_Witness ==
    /\ pc = "done"
    /\ \E i, j \in 1..Len(output) :
           /\ i < j
           /\ output[i].relevance = output[j].relevance
           /\ output[i].endedAt > output[j].endedAt
           /\ output[i].transcriptPath[2] > output[j].transcriptPath[2]

\* C6: for every value of the limit parameter of GET /sessions the request is
\* not failed because of the limit, and the LIMIT of the store query is an
\* integer in [1, 100], 20 when the parameter is absent.
C6_ApiLimitClamped ==
    (apc \in {"await", "done"} /\ handler = "search") =>
        /\ ~sqlq.limit.nan
        /\ sqlq.limit.n \in 1..100
        /\ ~IsDefined(req.query.limit) => sqlq.limit.n = 20

\* C7: when both an explicit since and days=N are given, the lower date bound
\* applied is the explicit since and days has no effect on the records
\* admitted, in searchSessions and in GET /sessions.
C7_SinceOverridesDays ==
    /\ (pc = "done" /\ IsDefined(options.since) /\ IsDefined(options.days)) =>
           output = searchSessions(fs, [options EXCEPT !.days = undefined])
    /\ (apc = "done" /\ handler = "search" /\ resp.status = 200
           /\ given(req.query.since) /\ given(req.query.days)) =>
           resp.data \in answers(store, apiQuery([req.query EXCEPT !.days = undefined]))

\* the session record of a row of the table
sessionOfRow(row) ==
    [userMessages |-> <<>>, toolsUsed |-> row.tools_used,
     filesFromToolCalls |-> row.files_touched, endedAt |-> row.ended_at]

\* C8: GET /sessions decides the tools filter as matchesFilters does: a row is
\* admitted iff some requested tool name is a case-insensitive substring of some
\* entry of the row's tools.
C8_ToolsFilterAgree ==
    (apc = "await" /\ handler = "search" /\ IsDefined(sqlq.where.tools)) =>
        \A i \in 1..Len(store) :
            existsAny(store[i].tools_used, Get(sqlq.where.tools))
                <=> matchesFilters(sessionOfRow(store[i]),
                                   [NoOptions EXCEPT !.tools = sqlq.where.tools])

\* C9: a GET of /sessions/stats is answered by the statistics handler, never by
\* the handler of /sessions/:id.
C9_StatsRouted ==
    (req.path = <<"sessions", "stats">> /\ apc # "recv") => handler = "stats"

\* the tree with every log that cannot be stat-ed, read or parsed taken out of
\* the candidates
withoutFailures(f) ==
    [f EXCEPT !.entries =
        [d \in 1..Len(f.entries) |->
            [f.entries[d] EXCEPT !.files =
                [k \in 1..Len(f.entries[d].files) |->
                    IF f.entries[d].files[k].kind \in {"statfail", "throw", "null"}
                    THEN File("other", 0, NoSession)
                    ELSE f.entries[d].files[k]]]]]

\* C10: a log that cannot be stat-ed, read or parsed excludes only itself: the
\* result is the one obtained without the failing logs; an unreadable baseDir
\* or session directory contributes nothing.
C10_FailureIsolated ==
    pc = "done" => output = searchSessions(withoutFailures(fs), options)

\* the orders of n things
Perms(n) == { p \in [1..n -> 1..n] : \A a, b \in 1..n : a # b => p[a] # p[b] }

\* the orders in which readdirSync can list the tree: pe the order of the
\* entries of baseDir, pf[e] the order of the files of entry e
discoveryOrders(f) ==
    { o \in [pe : Perms(Len(f.entries)),
             pf : [1..Len(f.entries) ->
                      UNION { Perms(Len(f.entries[e].files)) : e \in 1..Len(f.entries) }]] :
          \A e \in 1..Len(f.entries) : o.pf[e] \in Perms(Len(f.entries[e].files)) }

\* the same tree listed in the order o
listedAs(f, o) ==
    [f EXCEPT !.entries =
        [d \in 1..Len(f.entries) |->
            LET e == o.pe[d]
            IN  [f.entries[e] EXCEPT !.files =
                    [k \in 1..Len(f.entries[e].files) |->
                        f.entries[e].files[o.pf[e][k]]]]]]

\* the records found in the tree listed in the order o, each naming its log by
\* the log's place in the tree as first listed
namedAsFirstListed(out, o) ==
    [i \in 1..Len(out) |->
        [out[i] EXCEPT !.transcriptPath =
            <<o.pe[out[i].transcriptPath[1]],
              o.pf[o.pe[out[i].transcriptPath[1]]][out[i].transcriptPath[2]]>>]]

\* C11: for a fixed corpus and fixed options, searchSessions returns the same
\* sequence of records for every order in which the directories and the logs
\* are listed, records that tie on relevance and endedAt and a truncating limit
\* included.
C11_DiscoveryOrderIndependent ==
    pc = "done" =>
        \A o \in discoveryOrders(fs) :
            namedAsFirstListed(searchSessions(listedAs(fs, o), options), o) = output

\* the elements of a sequence
Range(a) == { a[i] : i \in 1..Len(a) }

\* t occurs in s, case ignored
occursIn(t, s) == includes(toLowerCase(s), toLowerCase(t))

\* the tools criterion: no list or an empty one, or some requested tool occurs
\* in some tool used
toolsCriterion(session, o) ==
    \/ ~IsDefined(o.tools)
    \/ Get(o.tools) = <<>>
    \/ \E t \in Range(Get(o.tools)) : \E u \in Range(session.toolsUsed) : occursIn(t, u)

\* the file criterion: no pattern (none given, or the empty string), or the
\* pattern occurs in some file path
fileCriterion(session, o) ==
    \/ ~IsDefined(o.filePattern)
    \/ Get(o.filePattern) = <<>>
    \/ \E f \in Range(session.filesFromToolCalls) : occursIn(Get(o.filePattern), f)

\* the parsed logs that hold a session with a user message and are not left
\* out for a zero score
candidates ==
    { p \in parsedFiles :
          /\ fs.entries[p[1]].files[p[2]].kind = "session"
          /\ fs.entries[p[1]].files[p[2]].session.userMessages # <<>>
          /\ ~(queryGiven(options)
                 /\ scoreRelevance(fs.entries[p[1]].files[p[2]].session,
                                   Get(options.query)) = 0) }

termsOf(query) ==
    { w \in (1..Len(query)) \X (1..Len(query)) :
          /\ w[1] <= w[2]
          /\ \A i \in w[1]..w[2] : query[i] # " "
          /\ w[1] = 1 \/ query[w[1] - 1] = " "
          /\ w[2] = Len(query) \/ query[w[2] + 1] = " " }

\* the number of (entry, term) pairs where the term occurs in the lower-cased
\* entry
matchingPairs(items, query) ==
    Cardinality({ m \in (1..Len(items)) \X termsOf(query) :
                      includes(toLowerCase(items[m[1]]),
                               SubSeq(toLowerCase(query), m[2][1], m[2][2])) })

pairScore(session, query) ==
    10 * matchingPairs(session.userMessages, query)
        + 3 * matchingPairs(session.toolsUsed, query)
        + 3 * matchingPairs(session.filesFromToolCalls, query)

\* C13: for a non-empty query the relevance of a record is 10 x the number of
\* matching (user message, term) pairs + 3 x the number of matching (tool, term)
\* pairs + 3 x the number of matching (file path, term) pairs, the terms being
\* the whitespace-separated words of the lower-cased query; the session with
\* the messages "Let's build an email filter", "Yes, ship it" and the tools
\* Edit, Bash is returned with relevance >= 10 for "email" and scores 0, and is
\* left out, for "database".
C13_ScoreIsWeightedPairCount ==
    (pc = "done" /\ queryGiven(options)) =>
        /\ \A i \in 1..Len(results) :
               results[i].relevance = pairScore(results[i], Get(options.query))
        /\ \A p \in parsedFiles :
               LET file == fs.entries[p[1]].files[p[2]]
               IN  (file.kind = "session"
                       /\ Content(file.session.userMessages, file.session.toolsUsed,
                                  file.session.filesFromToolCalls) = EmailContent) =>
                       /\ Get(options.query) = sEmail =>
                              \E i \in 1..Len(results) :
                                  /\ results[i].transcriptPath = p
                                  /\ results[i].relevance >= 10
                       /\ Get(options.query) = sDatabase =>
                              /\ scoreRelevance(file.session, sDatabase) = 0
                              /\ \A i \in 1..Len(results) : results[i].transcriptPath # p

\* the query "Em  ed" returned a record scoring 23: two user messages holding
\* "em" and one tool holding "ed"
C13_Witness ==
    /\ pc = "done"
    /\ queryGiven(options)
    /\ Len(splitTerms(Get(options.query))) = 2
    /\ \E i \in 1..Len(output) :
           /\ output[i].relevance = 23
           /\ Len(output[i].userMessages) = 2
           /\ Len(output[i].toolsUsed) = 1

\* C14: every request to the HTTP backend eventually receives a response: when
\* the store never answers the query of GET /sessions, GET /sessions/:id or
\* GET /sessions/stats, the handler still completes after a bounded wait, with
\* a failure response.
C14_EveryRequestAnswered == (apc = "recv") ~> (apc = "done" /\ resp.status # 0)

\* C15: the HTTP backend reports three distinct outcomes. A lookup by id with
\* no stored record answers 404, success = false, "Session not found". A search
\* matching nothing answers success = true, count 0 and an empty list. A failed
\* store call answers 500, success = false: a success response carries what the
\* store returned for every query of the handler, all three of /sessions/stats
\* included, never a part of it.
C15_ThreeOutcomes ==
    apc = "done" =>
        /\ resp.status \in {200, 404, 500}
        /\ resp.success <=> resp.status = 200
        /\ resp.status = 404 =>
               /\ sqlq.kind = "byId"
               /\ rowsById(store, sqlq.id) = {}
               /\ resp.error = "Session not found"
        /\ sqlq.kind = "byId" =>
               /\ rowsById(store, sqlq.id) = {} => resp.status \in {404, 500}
               /\ resp.status = 200 => resp.data \in rowsById(store, sqlq.id)
        /\ sqlq.kind = "search" =>
               /\ statementFails(sqlq) => resp.status = 500
               /\ resp.status = 200 =>
                      /\ resp.data \in answers(store, sqlq)
                      /\ resp.count = Len(resp.data)
                      /\ (\A i \in 1..Len(store) : ~rowSatisfies(store[i], sqlq.where))
                             => (resp.count = 0 /\ resp.data = <<>>)
        /\ sqlq.kind = "stats" =>
               /\ sqlq.step < 3 => resp.status = 500
               /\ resp.status = 200 =>
                      resp.data.session_count =
                          Cardinality({ i \in 1..Len(store) :
                              store[i].ended_at > Now - sqlq.days.n * MsPerDay })

\* the second query of /sessions/stats failed and the handler answered 500
C15_Witness ==
    /\ apc = "done"
    /\ handler = "stats"
    /\ sqlq.step = 2
    /\ resp.status = 500
    /\ ~resp.success

\* C16: when searchSessions is called with no query (absent, or the empty
\* string) every returned record has relevance 1, and the list is ordered by
\* endedAt alone, latest first.
C16_NoQueryBaseline ==
    (pc = "done" /\ (~IsDefined(options.query) \/ Get(options.query) = <<>>)) =>
        /\ \A i \in 1..Len(output) : output[i].relevance = 1
        /\ \A i, j \in 1..Len(output) :
               i < j => output[i].endedAt >= output[j].endedAt

\* a search with --query "" that returned two records, the later session,
\* listed second, first
C16_Witness ==
    /\ pc = "done"
    /\ options.query = Some(<<>>)
    /\ Len(output) = 2
    /\ output[1].endedAt > output[2].endedAt
    /\ output[1].transcriptPath[2] > output[2].transcriptPath[2]

\* the survivors the limit left out
omitted ==
    { i \in 1..Len(results) :
          \A j \in 1..Len(output) : output[j].transcriptPath # results[i].transcriptPath }

\* C17: truncation keeps a prefix of the sorted survivors: every returned
\* record is a survivor, and for every survivor left out because of the limit
\* every returned record has a greater relevance, or the same relevance and an
\* endedAt at least as late.
C17_TruncationKeepsTop ==
    pc = "done" =>
        /\ \A j \in 1..Len(output) : \E i \in 1..Len(results) : results[i] = output[j]
        /\ \A i \in omitted : \A j \in 1..Len(output) :
               \/ output[j].relevance > results[i].relevance
               \/ /\ output[j].relevance = results[i].relevance
                  /\ output[j].endedAt >= results[i].endedAt

\* a search cut to one record that left out a survivor of lower relevance
\* which was listed first
C17_Witness ==
    /\ pc = "done"
    /\ Len(output) = 1
    /\ \E i \in omitted :
           /\ results[i].relevance < output[1].relevance
           /\ results[i].transcriptPath[2] < output[1].transcriptPath[2]

====
